---------------------------- MODULE Spec2Model ----------------------------
(***************************************************************************)
(* Model of Hermes-Function-Calling/server.py: the FastAPI service that    *)
(* builds D3.js prompts, runs the shared model and post-processes the      *)
(* decoded text.                                                           *)
(*                                                                         *)
(* Text is a sequence of tokens.  A token is one character (the backtick,  *)
(* the newline, "x" for any other character) or one indivisible literal    *)
(* of the source: the word "javascript", the assistant turn marker, a code *)
(* fragment or a run of words of the prompt.  The multi-character tokens   *)
(* hold no backtick and do not overlap themselves, so searching and        *)
(* splitting over tokens behaves as it does over characters.               *)
(***************************************************************************)
EXTENDS Naturals, Sequences, FiniteSets

(***************************************************************************)
(* Bounds of the model.                                                    *)
(***************************************************************************)
MaxText == 5
MaxRaw == 1
MaxPart == 1
NumCalls == 2

(***************************************************************************)
(* Python str operations, over token sequences.                            *)
(***************************************************************************)
\* All sequences over S of length at most n.
SeqsUpTo(S, n) == UNION {[1..k -> S] : k \in 0..n}

\* str.find: the least index at which sep occurs in s, or 0.
Find(s, sep) ==
  LET hits == {k \in 1..(Len(s) + 1 - Len(sep)) :
                 SubSeq(s, k, k + Len(sep) - 1) = sep}
  IN IF Len(sep) > Len(s) \/ hits = {} THEN 0
     ELSE CHOOSE k \in hits : \A j \in hits : k <= j

\* Python's `sep in s`.
Contains(s, sep) == Find(s, sep) # 0

\* str.split(sep): the pieces between the non-overlapping occurrences of
\* sep, scanned left to right.
RECURSIVE Split(_, _)
Split(s, sep) ==
  LET k == Find(s, sep)
  IN IF k = 0 THEN <<s>>
     ELSE <<SubSeq(s, 1, k - 1)>> \o Split(SubSeq(s, k + Len(sep), Len(s)), sep)

\* Characters str.strip() removes.
Whitespace == {" ", "\n", "\t"}

RECURSIVE LStrip(_)
LStrip(s) ==
  IF s # <<>> /\ Head(s) \in Whitespace THEN LStrip(Tail(s)) ELSE s

RECURSIVE RStrip(_)
RStrip(s) ==
  IF s # <<>> /\ s[Len(s)] \in Whitespace
  THEN RStrip(SubSeq(s, 1, Len(s) - 1)) ELSE s

\* str.strip().
Strip(s) == RStrip(LStrip(s))

(***************************************************************************)
(* create_d3_prompt.  Every backtick and every newline of a literal is a   *)
(* token of its own, as are the code fragments the instructions quote; the *)
(* text between them keeps the source's wording.                           *)
(***************************************************************************)
Backtick == "[backtick]"
Newline == "\n"
CsvParseCall == "d3.csvParse()"
CoerceCode == "data.forEach(d => { d.value = +d.value; });"
JsonParseCall == "JSON.parse()"
PieLayoutCode == "const pie = d3.pie().sort(null).value(d => d.value);"
TspanCategory == ".append('tspan').attr('y', '-0.4em').attr('font-weight', 'bold').text(d => d.data.category)"
TspanValue == ".append('tspan').attr('x', 0).attr('y', '0.7em').attr('fill-opacity', 0.7).text(d => d.data.value)"

\* system_prompt, lines 45-49.
system_prompt ==
  <<"You are an expert D3.js developer. Your task is to generate a complete, self-contained D3.js script (without the script tags) to visualize the provided data. The script must handle its own data parsing and rendering.">>

\* data_block, lines 52-57: any data_type other than "CSV" takes the JSON
\* form; raw_data is embedded as it is.
DataBlock(raw_data, data_type) ==
  IF data_type = "CSV"
  THEN <<"const csvData = ", Backtick, Newline>> \o raw_data \o <<Newline, Backtick, ";">>
  ELSE <<"const jsonData = ", Backtick>> \o raw_data \o <<Backtick, ";">>

\* Mutant: the two branches of lines 62-70 swapped.
BarDataHandlingSteps_swapped(data_type) ==
  IF data_type = "CSV"
  THEN <<"1. The JSON data is provided in a constant named ", Backtick,
         "jsonData", Backtick, ". Parse it using ", Backtick, JsonParseCall,
         Backtick, ".", Newline>>
  ELSE <<"1. The CSV data is provided in a constant named ", Backtick, "csvData",
         Backtick, ". Parse it using ", Backtick, CsvParseCall, Backtick, ".",
         Newline,
         "2. **MOST IMPORTANT STEP:** After parsing, convert the 'value' strings to numbers using this exact code: ",
         Backtick, CoerceCode, Backtick, ".", Newline>>

\* data_handling_steps of the bar chart, lines 61-70.
BarDataHandlingSteps(data_type) ==
  IF data_type = "CSV"
  THEN <<"1. The CSV data is provided in a constant named ", Backtick, "csvData",
         Backtick, ". Parse it using ", Backtick, CsvParseCall, Backtick, ".",
         Newline,
         "2. **MOST IMPORTANT STEP:** After parsing, convert the 'value' strings to numbers using this exact code: ",
         Backtick, CoerceCode, Backtick, ".", Newline>>
  ELSE <<"1. The JSON data is provided in a constant named ", Backtick,
         "jsonData", Backtick, ". Parse it using ", Backtick, JsonParseCall,
         Backtick, ".", Newline>>

\* user_prompt of the bar chart, lines 72-85.
BarUserPrompt(raw_data, chart_type, data_type) ==
  <<"Generate a D3.js script to create a ">> \o <<chart_type>>
  \o <<". The script must be self-contained and perform these exact steps:",
       Newline, "// Data Definition:", Newline>>
  \o DataBlock(raw_data, data_type)
  \o <<Newline, Newline, "// D3.js Implementation Steps:", Newline>>
  \o BarDataHandlingSteps(data_type)
  \o <<"3. Define margins, and an inner ", Backtick, "width", Backtick, " and ",
       Backtick, "height", Backtick, ".", Newline, "4. Select ", Backtick,
       "d3.select('#d3-container')", Backtick, " and append an SVG.", Newline,
       "5. **CRITICAL: You MUST set the SVG's dimensions to include the margins.** Use this exact code: ",
       Backtick,
       ".attr('width', width + margin.left + margin.right).attr('height', height + margin.top + margin.bottom)",
       Backtick, ".", Newline, "6. After setting the dimensions, append a ",
       Backtick, "<g>", Backtick, " element and ", Backtick, "transform",
       Backtick, " it by the margins.", Newline, "7. Create scales. The ",
       Backtick, "yScale", Backtick, "'s range MUST be ", Backtick,
       "[height, 0]", Backtick, ".", Newline,
       "8. Render the x-axis and y-axis.", Newline,
       "9. Bind the data and append rectangles with the correct ", Backtick,
       "x", Backtick, ", ", Backtick, "y", Backtick, ", ", Backtick, "width",
       Backtick, ", and ", Backtick, "height", Backtick,
       " attributes, where height is ", Backtick, "height - yScale(d.value)",
       Backtick, ".", Newline,
       "Do not include any HTML or CSS, only the standalone Javascript code.">>

\* Mutant: the CSV instructions are given whatever the data_type.
PieDataFormatInstructions_always_csv(data_type) ==
  <<"The data is provided as a single CSV string.", Newline,
    "1. Parse the provided CSV string into an array of objects. **You MUST use ",
    Backtick, CsvParseCall, Backtick, " for this.**", Newline>>

\* data_format_instructions of the pie chart, lines 88-97.
PieDataFormatInstructions(data_type) ==
  IF data_type = "CSV"
  THEN <<"The data is provided as a single CSV string.", Newline,
         "The script must perform these initial data-loading steps:", Newline,
         "1. Parse the provided CSV string into an array of objects. **You MUST use ",
         Backtick, CsvParseCall, Backtick, " for this.**", Newline,
         "2. After parsing, you MUST iterate through the data and convert the numeric 'value' column to a number, for example: ",
         Backtick, CoerceCode, Backtick, " This is a critical step.", Newline,
         Newline>>
  ELSE <<"The data is provided as a single JSON string. The script should parse it before use.",
         Newline, Newline>>

\* user_prompt of the pie chart, lines 99-115.
PieUserPrompt(raw_data, chart_type, data_type) ==
  <<"Generate a D3.js script to create an advanced ">> \o <<chart_type>>
  \o <<" from the following data:", Newline>>
  \o DataBlock(raw_data, data_type)
  \o <<Newline>>
  \o PieDataFormatInstructions(data_type)
  \o <<"The script must then follow these exact rendering instructions:",
       Newline, "1. Define width and height.", Newline, "2. Create a ",
       Backtick, "d3.pie()", Backtick, " layout. Define it exactly like this: ",
       Backtick, PieLayoutCode, Backtick, Newline,
       "3. Create the SVG and set its viewBox exactly like this: ", Backtick,
       ".attr('viewBox', [-width / 2, -height / 2, width, height])", Backtick,
       ".", Newline, "4. Create two arc generators: ", Backtick, "arc",
       Backtick, " for slices and ", Backtick, "arcLabel", Backtick,
       " for label positions.", Newline, "5. First, append a ", Backtick, "<g>",
       Backtick,
       " for slices and append paths to it. Do not use a transform on this group.",
       Newline, "6. Second, append a NEW, SEPARATE ", Backtick, "<g>", Backtick,
       " for labels with ", Backtick, "text-anchor: 'middle'", Backtick, ".",
       Newline, "7. In this label group, join data and append ", Backtick,
       "<text>", Backtick, " elements with the transform ", Backtick, "d => ",
       Backtick, "translate(${arcLabel.centroid(d)})", Backtick, ".", Newline,
       "8. Use ", Backtick, ".call()", Backtick, " to append two ", Backtick,
       "<tspan>", Backtick, " elements with the following exact attributes:",
       Newline, "   a. The first tspan for the category: ", Backtick,
       TspanCategory, Backtick, Newline,
       "   b. The second tspan for the value: ", Backtick, TspanValue, Backtick,
       Newline,
       "Do not include any HTML or CSS, only the standalone Javascript code.">>

\* Mutant: an else branch that falls back to the bar chart prompt.
UserPrompt_else_bar(raw_data, chart_type, data_type) ==
  IF chart_type = "Pie Chart"
  THEN PieUserPrompt(raw_data, chart_type, data_type)
  ELSE BarUserPrompt(raw_data, chart_type, data_type)

\* user_prompt, lines 51 and 60-115: empty unless chart_type is one of the
\* two literals.
UserPrompt(raw_data, chart_type, data_type) ==
  IF chart_type = "Bar Chart"
  THEN BarUserPrompt(raw_data, chart_type, data_type)
  ELSE IF chart_type = "Pie Chart"
  THEN PieUserPrompt(raw_data, chart_type, data_type)
  ELSE <<>>

\* messages, lines 117-120.
BuildMessages(raw_data, chart_type, data_type) ==
  <<[role |-> "system", content |-> system_prompt],
    [role |-> "user", content |-> UserPrompt(raw_data, chart_type, data_type)]>>

(***************************************************************************)
(* Post-processing of the decoded text, generate_d3 lines 161-182 and chat *)
(* line 210.                                                               *)
(***************************************************************************)
\* "<|im_start|>assistant\n", one token (its final newline included).
AssistantMarker == <<"<|im_start|>assistant\n">>
\* "```javascript", the text the membership test of line 163 looks for.
FenceTag == <<Backtick, Backtick, Backtick, "javascript">>
\* "```javascript\n", the separator line 164 splits on.
FenceOpener == FenceTag \o <<Newline>>
\* "```", lines 165-166.
FenceCloser == <<Backtick, Backtick, Backtick>>

\* Mutant: text.partition(marker)[2], empty when the marker is absent.
SplitMarker_partition(text) ==
  LET k == Find(text, AssistantMarker)
  IN IF k = 0 THEN <<>> ELSE SubSeq(text, k + 1, Len(text))

\* response_text.split("<|im_start|>assistant\n")[-1]
SplitMarker(text) ==
  LET parts == Split(text, AssistantMarker) IN parts[Len(parts)]

\* Mutant: index 0 of the split instead of index 1.
TakeCodeBlock_first(a) ==
  IF Contains(a, FenceTag)
  THEN [raised |-> FALSE, text |-> Split(a, FenceOpener)[1]]
  ELSE [raised |-> FALSE, text |-> a]

\* Lines 163-164: split(...)[1] raises IndexError when the separator (with
\* its newline) does not occur although the tag does.
TakeCodeBlock(a) ==
  IF Contains(a, FenceTag)
  THEN LET parts == Split(a, FenceOpener)
       IN IF Len(parts) >= 2
          THEN [raised |-> FALSE, text |-> parts[2]]
          ELSE [raised |-> TRUE, text |-> <<"list index out of range">>]
  ELSE [raised |-> FALSE, text |-> a]

\* Lines 165-166.
CutAtCloser(a) ==
  IF Contains(a, FenceCloser) THEN Split(a, FenceCloser)[1] ELSE a

\* Mutant: lstrip() instead of strip().
D3Code_lstrip(a) == LStrip(a)

\* Line 182: assistant_response.strip()
D3Code(a) == Strip(a)

\* Line 210: response_text.split(marker)[-1].strip()
ChatResponse(text) == Strip(SplitMarker(text))

(***************************************************************************)
(* What a handler hands back to the framework.  kind is "dict" for a       *)
(* returned dict, "tuple" for a returned (dict, status) pair, "raise" for  *)
(* an exception that leaves the handler, "none" while it has not returned. *)
(***************************************************************************)
ServiceUnavailable == 503

Dict(key, text) == [k \in {key} |-> text]
NoReturn == [kind |-> "none", body |-> Dict("none", <<>>), status |-> 0]
ReturnDict(key, text) == [kind |-> "dict", body |-> Dict(key, text), status |-> 0]
ReturnTuple(key, text, code) ==
  [kind |-> "tuple", body |-> Dict(key, text), status |-> code]
Unhandled(text) == [kind |-> "raise", body |-> Dict("exception", text), status |-> 0]

\* Mutant: the not-loaded branch raises instead of returning.
ModelNotLoadedReturn_raises ==
  Unhandled(<<"Model not loaded. Please check server logs.">>)

\* Lines 135 and 196: return {"error": ...}, 503
ModelNotLoadedReturn ==
  ReturnTuple("error", <<"Model not loaded. Please check server logs.">>,
              ServiceUnavailable)

\* Lines 184-186 and 214-216: except Exception as e: return {"error": str(e)}
CaughtReturn(message) == ReturnDict("error", message)

\* ml_models.get(key): the loaded object, or None.
Get(mapping, key) == IF key \in mapping THEN "object" ELSE "None"

\* Lines 134 and 195: not model or not tokenizer
NotLoaded(m, t) == m = "None" \/ t = "None"

\* Line 43.
TokenizerNotLoaded ==
  <<"Tokenizer not loaded. The application might not have started correctly.">>
\* Mutant: create_d3_prompt is called before the try block.
TokenizerMissingReturn_outside_try == Unhandled(TokenizerNotLoaded)

\* Lines 42-43 raise inside the try of line 140; lines 184-186 return.
TokenizerMissingReturn == CaughtReturn(TokenizerNotLoaded)

\* str(e) of an exception raised inside the tokenizer or the model.
LibraryError == <<"library error">>

(***************************************************************************)
(* Inputs: the HTTP calls (each is one request, handled once), their       *)
(* bodies, and the texts tokenizer.decode may produce.                     *)
(***************************************************************************)
Calls == 1..NumCalls

RawAlphabet == {"x", Backtick, JsonParseCall, CsvParseCall, CoerceCode}
RawDatas == SeqsUpTo(RawAlphabet, MaxRaw)
ChartTypes == {"Bar Chart", "Pie Chart", "Line Chart", ""}
DataTypes == {"CSV", "JSON", "csv"}
D3Requests ==
  [raw_data : RawDatas, chart_type : ChartTypes, data_type : DataTypes]
FewD3Requests ==
  {[raw_data |-> <<"x">>, chart_type |-> "Bar Chart", data_type |-> "CSV"],
   [raw_data |-> <<>>, chart_type |-> "Line Chart", data_type |-> "JSON"]}

ChatRequests ==
  {[messages |-> <<>>],
   [messages |-> <<[role |-> "user", content |-> <<"x">>]>>],
   [messages |-> <<[role |-> "system", content |-> <<"x">>],
                   [role |-> "tool", content |-> <<Backtick>>]>>]}
FewChatRequests == {[messages |-> <<[role |-> "user", content |-> <<"x">>]>>]}

TextAlphabet == {Backtick, "javascript", Newline, AssistantMarker[1], "x"}
Texts == SeqsUpTo(TextAlphabet, MaxText)
\* Decoded responses that hold a fenced javascript block: text before the
\* fence, the opener, the inner content, the closer, trailing text.
Prefixes ==
  {<<>>, <<"x">>, <<Backtick>>, AssistantMarker, FenceOpener \o <<"x">>,
   FenceTag \o <<"x">>, FenceOpener \o AssistantMarker}
Inners ==
  SeqsUpTo(TextAlphabet, MaxPart)
    \cup {<<Newline, "x", Newline>>, <<"x", Backtick>>,
          <<"x">> \o AssistantMarker \o <<"x">>}
Trailings ==
  SeqsUpTo(TextAlphabet, MaxPart)
    \cup {<<"javascript", Newline, "x">>, <<Backtick, "javascript", Newline>>,
          <<Backtick, Backtick, "javascript", Newline>>,
          <<"x">> \o FenceOpener \o <<"x">> \o FenceCloser}
FencedTexts ==
  {p \o FenceOpener \o c \o FenceCloser \o t :
     p \in Prefixes, c \in Inners, t \in Trailings}
AllTexts == Texts \cup FencedTexts
FewTexts ==
  {<<"x">>, AssistantMarker \o FenceTag \o <<"x">>,
   FenceOpener \o <<"x">> \o FenceCloser}

(***************************************************************************)
(* State.                                                                  *)
(***************************************************************************)
VARIABLES
  ml_models,           \* keys of the shared mapping (line 12)
  life,                \* position of the startup / shutdown hooks
  pc,                  \* per call: position in its handler
  handler,             \* per call: "generate_d3", "chat" or "none"
  request,             \* per call: the request body
  model,               \* per call: local `model` (lines 132, 193)
  tokenizer,           \* per call: local `tokenizer` (lines 133, 194)
  cdp_tokenizer,       \* per call: local `tokenizer` of create_d3_prompt
  messages,            \* per call: messages given to apply_chat_template
  response_text,       \* per call: the decoded text
  assistant_response,  \* per call: local `assistant_response`
  ret                  \* per call: what the handler handed back

vars ==
  <<ml_models, life, pc, handler, request, model, tokenizer, cdp_tokenizer,
    messages, response_text, assistant_response, ret>>

locals ==
  <<model, tokenizer, cdp_tokenizer, messages, response_text,
    assistant_response>>

Init ==
  /\ ml_models = {}
  /\ life = "new"
  /\ pc = [c \in Calls |-> "idle"]
  /\ handler = [c \in Calls |-> "none"]
  /\ request = [c \in Calls |-> <<>>]
  /\ model = [c \in Calls |-> "unset"]
  /\ tokenizer = [c \in Calls |-> "unset"]
  /\ cdp_tokenizer = [c \in Calls |-> "unset"]
  /\ messages = [c \in Calls |-> <<>>]
  /\ response_text = [c \in Calls |-> <<>>]
  /\ assistant_response = [c \in Calls |-> <<>>]
  /\ ret = [c \in Calls |-> NoReturn]

(***************************************************************************)
(* Lifecycle hooks, lines 15-29.                                           *)
(***************************************************************************)
\* Line 18.
StartupTokenizer ==
  /\ life = "new"
  /\ ml_models' = ml_models \cup {"tokenizer"}
  /\ life' = "tokenizer_loaded"
  /\ UNCHANGED <<pc, handler, request, ret, locals>>

\* Lines 19-23.
StartupModel ==
  /\ life = "tokenizer_loaded"
  /\ ml_models' = ml_models \cup {"model"}
  /\ life' = "started"
  /\ UNCHANGED <<pc, handler, request, ret, locals>>

\* from_pretrained raises (line 18 or 19): startup ends, nothing is stored
\* by the failing line and the shutdown hook does not run.
StartupFails ==
  /\ life \in {"new", "tokenizer_loaded"}
  /\ life' = "failed"
  /\ UNCHANGED <<ml_models, pc, handler, request, ret, locals>>

\* Lines 27-29.
Shutdown ==
  /\ life = "started"
  /\ ml_models' = {}
  /\ life' = "stopped"
  /\ UNCHANGED <<pc, handler, request, ret, locals>>

(***************************************************************************)
(* generate_d3, lines 130-186.  The handler is a plain def: it runs on a   *)
(* worker thread, so its steps interleave with the hooks and other calls.  *)
(***************************************************************************)
\* Lines 131-135: the request arrives, the mapping is read and checked.
GenerateD3Enter(c, req) ==
  /\ pc[c] = "idle"
  /\ handler' = [handler EXCEPT ![c] = "generate_d3"]
  /\ request' = [request EXCEPT ![c] = req]
  /\ model' = [model EXCEPT ![c] = Get(ml_models, "model")]
  /\ tokenizer' = [tokenizer EXCEPT ![c] = Get(ml_models, "tokenizer")]
  /\ cdp_tokenizer' = [cdp_tokenizer EXCEPT ![c] = "unset"]
  /\ messages' = [messages EXCEPT ![c] = <<>>]
  /\ response_text' = [response_text EXCEPT ![c] = <<>>]
  /\ assistant_response' = [assistant_response EXCEPT ![c] = <<>>]
  /\ IF NotLoaded(Get(ml_models, "model"), Get(ml_models, "tokenizer"))
     THEN /\ ret' = [ret EXCEPT ![c] = ModelNotLoadedReturn]
          /\ pc' = [pc EXCEPT ![c] = "done"]
     ELSE /\ ret' = [ret EXCEPT ![c] = NoReturn]
          /\ pc' = [pc EXCEPT ![c] = "create_d3_prompt"]
  /\ UNCHANGED <<ml_models, life>>

\* Line 141 and lines 40-127: create_d3_prompt reads the tokenizer from the
\* mapping again; its RuntimeError is caught at line 184.
CreateD3Prompt(c) ==
  /\ pc[c] = "create_d3_prompt"
  /\ cdp_tokenizer' = [cdp_tokenizer EXCEPT ![c] = Get(ml_models, "tokenizer")]
  /\ IF Get(ml_models, "tokenizer") = "None"
     THEN /\ ret' = [ret EXCEPT ![c] = TokenizerMissingReturn]
          /\ pc' = [pc EXCEPT ![c] = "done"]
          /\ UNCHANGED messages
     ELSE /\ messages' =
               [messages EXCEPT ![c] =
                  BuildMessages(request[c].raw_data, request[c].chart_type,
                                request[c].data_type)]
          /\ pc' = [pc EXCEPT ![c] = "generate"]
          /\ UNCHANGED ret
  /\ UNCHANGED <<ml_models, life, handler, request, model, tokenizer,
                 response_text, assistant_response>>

\* Lines 143-159: tokenize, generate, decode.  The library decides the text;
\* an exception of the library is caught at line 184.
GenerateD3Decode(c, texts) ==
  /\ pc[c] = "generate"
  /\ \E text \in texts : response_text' = [response_text EXCEPT ![c] = text]
  /\ pc' = [pc EXCEPT ![c] = "split"]
  /\ UNCHANGED <<ml_models, life, handler, request, model, tokenizer,
                 cdp_tokenizer, messages, assistant_response, ret>>

GenerateD3LibraryRaises(c) ==
  /\ pc[c] = "generate"
  /\ ret' = [ret EXCEPT ![c] = CaughtReturn(LibraryError)]
  /\ pc' = [pc EXCEPT ![c] = "done"]
  /\ UNCHANGED <<ml_models, life, handler, request, locals>>

\* Line 161.
GenerateD3Split(c) ==
  /\ pc[c] = "split"
  /\ assistant_response' =
       [assistant_response EXCEPT ![c] = SplitMarker(response_text[c])]
  /\ pc' = [pc EXCEPT ![c] = "fence"]
  /\ UNCHANGED <<ml_models, life, handler, request, model, tokenizer,
                 cdp_tokenizer, messages, response_text, ret>>

\* Lines 163-182 (and 184-186 when line 164 raises).
GenerateD3Return(c) ==
  /\ pc[c] = "fence"
  /\ LET block == TakeCodeBlock(assistant_response[c])
     IN IF block.raised
        THEN /\ ret' = [ret EXCEPT ![c] = CaughtReturn(block.text)]
             /\ UNCHANGED assistant_response
        ELSE /\ assistant_response' =
                  [assistant_response EXCEPT ![c] = CutAtCloser(block.text)]
             /\ ret' = [ret EXCEPT ![c] =
                          ReturnDict("d3_code", D3Code(CutAtCloser(block.text)))]
  /\ pc' = [pc EXCEPT ![c] = "done"]
  /\ UNCHANGED <<ml_models, life, handler, request, model, tokenizer,
                 cdp_tokenizer, messages, response_text>>

(***************************************************************************)
(* chat, lines 188-216.  The handler is an async def without an await: it  *)
(* runs on the event loop from entry to return as one step.                *)
(***************************************************************************)
ChatEnter(c, req) ==
  /\ pc[c] = "idle"
  /\ handler' = [handler EXCEPT ![c] = "chat"]
  /\ request' = [request EXCEPT ![c] = req]
  /\ model' = [model EXCEPT ![c] = Get(ml_models, "model")]
  /\ tokenizer' = [tokenizer EXCEPT ![c] = Get(ml_models, "tokenizer")]
  /\ cdp_tokenizer' = [cdp_tokenizer EXCEPT ![c] = "unset"]
  /\ pc' = [pc EXCEPT ![c] = "done"]
  /\ UNCHANGED <<ml_models, life>>

\* Lines 193-196.
ChatNotLoaded(c, req) ==
  /\ ChatEnter(c, req)
  /\ NotLoaded(Get(ml_models, "model"), Get(ml_models, "tokenizer"))
  /\ messages' = [messages EXCEPT ![c] = <<>>]
  /\ response_text' = [response_text EXCEPT ![c] = <<>>]
  /\ assistant_response' = [assistant_response EXCEPT ![c] = <<>>]
  /\ ret' = [ret EXCEPT ![c] = ModelNotLoadedReturn]

\* Lines 198-212.
ChatRespond(c, req, texts) ==
  /\ ChatEnter(c, req)
  /\ ~NotLoaded(Get(ml_models, "model"), Get(ml_models, "tokenizer"))
  /\ messages' = [messages EXCEPT ![c] = req.messages]
  /\ \E text \in texts :
       /\ response_text' = [response_text EXCEPT ![c] = text]
       /\ assistant_response' =
            [assistant_response EXCEPT ![c] = ChatResponse(text)]
       /\ ret' = [ret EXCEPT ![c] = ReturnDict("response", ChatResponse(text))]

\* Lines 198-208 raise, lines 214-216.
ChatLibraryRaises(c, req) ==
  /\ ChatEnter(c, req)
  /\ ~NotLoaded(Get(ml_models, "model"), Get(ml_models, "tokenizer"))
  /\ messages' = [messages EXCEPT ![c] = req.messages]
  /\ response_text' = [response_text EXCEPT ![c] = <<>>]
  /\ assistant_response' = [assistant_response EXCEPT ![c] = <<>>]
  /\ ret' = [ret EXCEPT ![c] = CaughtReturn(LibraryError)]

(***************************************************************************)
(* Specifications.  NextOn is the next-state relation for given inputs.    *)
(***************************************************************************)
NextOn(calls, d3reqs, chatreqs, texts) ==
  \/ StartupTokenizer
  \/ StartupModel
  \/ StartupFails
  \/ Shutdown
  \/ \E c \in calls, req \in d3reqs : GenerateD3Enter(c, req)
  \/ \E c \in calls : CreateD3Prompt(c)
  \/ \E c \in calls : GenerateD3Decode(c, texts)
  \/ \E c \in calls : GenerateD3LibraryRaises(c)
  \/ \E c \in calls : GenerateD3Split(c)
  \/ \E c \in calls : GenerateD3Return(c)
  \/ \E c \in calls, req \in chatreqs : ChatNotLoaded(c, req)
  \/ \E c \in calls, req \in chatreqs : ChatRespond(c, req, texts)
  \/ \E c \in calls, req \in chatreqs : ChatLibraryRaises(c, req)

\* Concurrent calls against the lifecycle hooks.
Next == NextOn(Calls, FewD3Requests, FewChatRequests, FewTexts)
Spec == Init /\ [][Next]_vars

\* A single call, every request body.
NextPrompt == NextOn({1}, D3Requests, ChatRequests, {<<"x">>})
SpecPrompt == Init /\ [][NextPrompt]_vars

\* A single call, every decoded text.
NextPost == NextOn({1}, FewD3Requests, FewChatRequests, AllTexts)
SpecPost == Init /\ [][NextPost]_vars

(***************************************************************************)
(* Properties.                                                             *)
(***************************************************************************)
IsD3(c) == handler[c] = "generate_d3"
IsChat(c) == handler[c] = "chat"
Keys(r) == DOMAIN r.body
UserContent(c) == messages[c][2].content
\* The call ran lines 161-182: its text was decoded and post-processed.
PostProcessed(c) ==
  /\ IsD3(c) /\ pc[c] = "done" /\ cdp_tokenizer[c] = "object"
  /\ ret[c] # CaughtReturn(LibraryError)

\* C1: a call to generate_d3 or to chat that finds the model or the
\* tokenizer missing from ml_models ends at once, handing back the error
\* payload {"error": ...}; no exception leaves the handler.
C1_NotLoadedReturnsError ==
  \A c \in Calls :
    (pc[c] # "idle" /\ NotLoaded(model[c], tokenizer[c]))
      => /\ pc[c] = "done"
         /\ ret[c].kind \in {"dict", "tuple"}
         /\ Keys(ret[c]) = {"error"}

\* C1 witness: a generate_d3 call that found only the tokenizer, and a chat
\* call that found nothing or only the tokenizer, have both returned.
C1_Witness ==
  \E c, d \in Calls :
    /\ IsD3(c) /\ pc[c] = "done"
    /\ tokenizer[c] = "object" /\ model[c] = "None"
    /\ IsChat(d) /\ pc[d] = "done" /\ model[d] = "None"

\* C8: every finished generate_d3 call handed back exactly {d3_code: text}
\* or {error: text}, every finished chat call exactly {response: text} or
\* {error: text}: a dict with that single field and nothing else.
C8_ExactlyOneVariant ==
  \A c \in Calls :
    pc[c] = "done"
      => /\ ret[c].kind = "dict"
         /\ IsD3(c) => Keys(ret[c]) \in {{"d3_code"}, {"error"}}
         /\ IsChat(c) => Keys(ret[c]) \in {{"response"}, {"error"}}

\* C9: a generate_d3 call that passed the check of line 134 and then found
\* the tokenizer gone in create_d3_prompt ends with the dict {error: text};
\* and no step of a request handler changes ml_models.
C9_TokenizerGoneIsCaught ==
  /\ [](\A c \in Calls :
          (IsD3(c) /\ model[c] = "object" /\ tokenizer[c] = "object"
             /\ cdp_tokenizer[c] = "None")
            => /\ pc[c] = "done"
               /\ ret[c].kind = "dict"
               /\ Keys(ret[c]) = {"error"})
  /\ [][pc' # pc => ml_models' = ml_models]_vars

\* C9 witness: shutdown cleared the mapping between the check and
\* create_d3_prompt of a call, while another call is in flight.
C9_Witness ==
  \E c, d \in Calls :
    /\ c # d /\ IsD3(c) /\ pc[c] = "done" /\ tokenizer[c] = "object"
    /\ cdp_tokenizer[c] = "None"
    /\ IsD3(d) /\ pc[d] \notin {"idle", "done"}

\* The four documented steps of the D3 endpoint, as the documentation words
\* them: final segment after the assistant marker; everything after the
\* first "```javascript" if present; everything before the first "```" if
\* present; trimmed.
DocumentedSteps(text) ==
  LET s1 == LET parts == Split(text, AssistantMarker) IN parts[Len(parts)]
      s2 == IF Contains(s1, FenceTag)
            THEN SubSeq(s1, Find(s1, FenceTag) + Len(FenceTag), Len(s1))
            ELSE s1
      s3 == IF Contains(s2, FenceCloser)
            THEN SubSeq(s2, 1, Find(s2, FenceCloser) - 1)
            ELSE s2
  IN Strip(s3)

\* C2: for every decoded text, generate_d3 returns as d3_code the result of
\* the four documented steps applied in order.
C2_DocumentedSteps ==
  \A c \in Calls :
    PostProcessed(c)
      => ret[c] = ReturnDict("d3_code", DocumentedSteps(response_text[c]))

\* A decoded text read as prefix + "```javascript\n" + inner + "```" +
\* trailing, the opener starting at i and the closer at j.
FencedAt(text, i, j) ==
  /\ i + Len(FenceOpener) <= j
  /\ j + Len(FenceCloser) - 1 <= Len(text)
  /\ SubSeq(text, i, i + Len(FenceOpener) - 1) = FenceOpener
  /\ SubSeq(text, j, j + Len(FenceCloser) - 1) = FenceCloser
  /\ ~Contains(SubSeq(text, i + Len(FenceOpener), j - 1), FenceCloser)
PrefixOf(text, i) == SubSeq(text, 1, i - 1)
InnerOf(text, i, j) == SubSeq(text, i + Len(FenceOpener), j - 1)
TrailingOf(text, j) == SubSeq(text, j + Len(FenceCloser), Len(text))

\* C3 as claimed: for every prefix, every inner content without a triple
\* backtick and every trailing text, the d3_code of prefix + opener + inner
\* + closer + trailing is the inner content trimmed.
C3_RoundTripAnyParts ==
  \A c \in Calls :
    PostProcessed(c) =>
      \A i, j \in 1..Len(response_text[c]) :
        FencedAt(response_text[c], i, j)
          => ret[c] = ReturnDict("d3_code",
                                 Strip(InnerOf(response_text[c], i, j)))

\* s begins with p.
StartsWith(s, p) == Len(p) <= Len(s) /\ SubSeq(s, 1, Len(p)) = p

\* The reading of a fenced text the round trip holds for: the inner content
\* does not end in a backtick, no assistant marker occurs in the inner
\* content or the trailing text, the prefix holds no earlier opener after
\* its last assistant marker, and no later opener overlaps the closer (the
\* trailing text does not begin with one or two backticks and then
\* "javascript\n").
CleanFence(text, i, j) ==
  /\ FencedAt(text, i, j)
  /\ LET inner == InnerOf(text, i, j)
     IN inner = <<>> \/ inner[Len(inner)] # Backtick
  /\ ~Contains(InnerOf(text, i, j), AssistantMarker)
  /\ ~Contains(TrailingOf(text, j), AssistantMarker)
  /\ ~Contains(SplitMarker(PrefixOf(text, i)), FenceOpener)
  /\ ~StartsWith(TrailingOf(text, j), <<Backtick, "javascript", Newline>>)
  /\ ~StartsWith(TrailingOf(text, j),
                 <<Backtick, Backtick, "javascript", Newline>>)

\* C3 (amended): the round trip holds for every fenced text whose inner
\* content has no triple backtick and does not end in a backtick, with no
\* assistant marker in the inner content or the trailing text, no earlier
\* opener in the prefix after its last assistant marker and no later opener
\* overlapping the closer.
C3_RoundTripCleanFence ==
  \A c \in Calls :
    PostProcessed(c) =>
      \A i, j \in 1..Len(response_text[c]) :
        CleanFence(response_text[c], i, j)
          => ret[c] = ReturnDict("d3_code",
                                 Strip(InnerOf(response_text[c], i, j)))

\* C3 witness: a fenced response with text before the fence, inner content
\* with whitespace around it and trailing text returned its inner content.
C3_Witness ==
  \E c \in Calls :
    /\ PostProcessed(c)
    /\ \E i, j \in 1..Len(response_text[c]) :
         /\ CleanFence(response_text[c], i, j)
         /\ PrefixOf(response_text[c], i) # <<>>
         /\ TrailingOf(response_text[c], j) # <<>>
         /\ Strip(InnerOf(response_text[c], i, j)) # <<>>
         /\ Strip(InnerOf(response_text[c], i, j))
              # InnerOf(response_text[c], i, j)
         /\ Keys(ret[c]) = {"d3_code"}

\* C4: when the decoded text holds no assistant marker, the split of line
\* 161 raises nothing and leaves the whole text as the assistant response
\* of generate_d3, and chat returns the whole text trimmed.
C4_NoMarkerKeepsWholeText ==
  \A c \in Calls :
    ~Contains(response_text[c], AssistantMarker)
      => /\ (IsD3(c) /\ pc[c] = "fence")
              => /\ assistant_response[c] = response_text[c]
                 /\ ret[c] = NoReturn
         /\ (IsChat(c) /\ pc[c] = "done" /\ ret[c] # CaughtReturn(LibraryError)
               /\ ret[c] # ModelNotLoadedReturn)
              => ret[c] = ReturnDict("response", Strip(response_text[c]))

\* C4 witness: chat returned a marker-free text that had whitespace to trim.
C4_Witness ==
  \E c \in Calls :
    /\ IsChat(c) /\ pc[c] = "done" /\ Keys(ret[c]) = {"response"}
    /\ ~Contains(response_text[c], AssistantMarker)
    /\ Strip(response_text[c]) # response_text[c]
    /\ Strip(response_text[c]) # <<>>

\* C10: a d3_code that generate_d3 returns holds no triple backtick and has
\* no whitespace at either end.
C10_CodeHasNoFenceNoMargin ==
  \A c \in Calls :
    (IsD3(c) /\ pc[c] = "done" /\ Keys(ret[c]) = {"d3_code"})
      => LET code == ret[c].body["d3_code"]
         IN /\ ~Contains(code, FenceCloser)
            /\ code # <<>> =>
                 (code[1] \notin Whitespace /\ code[Len(code)] \notin Whitespace)

\* C10 witness: a response with a fence closer and whitespace to trim gave a
\* non-empty d3_code.
C10_Witness ==
  \E c \in Calls :
    /\ IsD3(c) /\ pc[c] = "done" /\ Keys(ret[c]) = {"d3_code"}
    /\ Contains(SplitMarker(response_text[c]), FenceCloser)
    /\ ret[c].body["d3_code"] # <<>>
    /\ ret[c].body["d3_code"] # assistant_response[c]

\* The call built its messages in create_d3_prompt from this request.
Built(c, chart_type, data_type) ==
  /\ IsD3(c) /\ messages[c] # <<>>
  /\ request[c].chart_type = chart_type
  /\ request[c].data_type = data_type
CoercionInstruction == <<Backtick, CoerceCode, Backtick>>
PieLayoutInstruction == <<Backtick, PieLayoutCode, Backtick>>
TspanInstructions(p) ==
  /\ Contains(p, <<Backtick, TspanCategory, Backtick>>)
  /\ Contains(p, <<Backtick, TspanValue, Backtick>>)

\* C5 as claimed: for a bar chart of CSV data and every raw_data, the user
\* instruction holds the numeric-coercion instruction and holds no
\* JSON.parse instruction.
C5_BarCsvAnyRawData ==
  \A c \in Calls :
    Built(c, "Bar Chart", "CSV")
      => /\ Contains(UserContent(c), CoercionInstruction)
         /\ ~Contains(UserContent(c), <<JsonParseCall>>)

\* C5 (amended): the same, for every raw_data that does not itself hold the
\* JSON.parse text (raw_data is embedded as it is).
C5_BarCsvPrompt ==
  \A c \in Calls :
    (Built(c, "Bar Chart", "CSV")
       /\ ~Contains(request[c].raw_data, <<JsonParseCall>>))
      => /\ Contains(UserContent(c), CoercionInstruction)
         /\ ~Contains(UserContent(c), <<JsonParseCall>>)

\* C5 witness: a bar chart prompt was built from non-empty CSV raw_data
\* without the JSON.parse text.
C5_Witness ==
  \E c \in Calls :
    /\ Built(c, "Bar Chart", "CSV")
    /\ request[c].raw_data # <<>>
    /\ ~Contains(request[c].raw_data, <<JsonParseCall>>)

\* C6 as claimed: for a pie chart of JSON data and every raw_data, the user
\* instruction holds the pie-layout definition and both tspan instructions,
\* and holds neither d3.csvParse nor the 'value' coercion code.
C6_PieJsonAnyRawData ==
  \A c \in Calls :
    Built(c, "Pie Chart", "JSON")
      => /\ Contains(UserContent(c), PieLayoutInstruction)
         /\ TspanInstructions(UserContent(c))
         /\ ~Contains(UserContent(c), <<CsvParseCall>>)
         /\ ~Contains(UserContent(c), <<CoerceCode>>)

\* C6 (amended): the same, for every raw_data that does not itself hold the
\* d3.csvParse text or the coercion code (raw_data is embedded as it is).
C6_PieJsonPrompt ==
  \A c \in Calls :
    (Built(c, "Pie Chart", "JSON")
       /\ ~Contains(request[c].raw_data, <<CsvParseCall>>)
       /\ ~Contains(request[c].raw_data, <<CoerceCode>>))
      => /\ Contains(UserContent(c), PieLayoutInstruction)
         /\ TspanInstructions(UserContent(c))
         /\ ~Contains(UserContent(c), <<CsvParseCall>>)
         /\ ~Contains(UserContent(c), <<CoerceCode>>)

\* C6 witness: a pie chart prompt was built from non-empty JSON raw_data
\* without the CSV texts.
C6_Witness ==
  \E c \in Calls :
    /\ Built(c, "Pie Chart", "JSON")
    /\ request[c].raw_data # <<>>
    /\ ~Contains(request[c].raw_data, <<CsvParseCall>>)
    /\ ~Contains(request[c].raw_data, <<CoerceCode>>)

OtherChart(c) ==
  IsD3(c) /\ request[c].chart_type \notin {"Bar Chart", "Pie Chart"}
FallbackMessages ==
  <<[role |-> "system", content |-> system_prompt],
    [role |-> "user", content |-> <<>>]>>

\* C7 as claimed: for every chart_type other than the two literals, and
\* every raw_data and data_type, create_d3_prompt raises nothing and hands
\* the chat template the system persona and an empty user message.
C7_OtherChartNeverRaises ==
  \A c \in Calls :
    (OtherChart(c) /\ cdp_tokenizer[c] # "unset")
      => /\ messages[c] = FallbackMessages
         /\ system_prompt # <<>>
         /\ ret[c] # CaughtReturn(TokenizerNotLoaded)

\* C7 (amended): the same, whenever create_d3_prompt finds the tokenizer in
\* the shared mapping (without it, line 43 raises RuntimeError for every
\* chart_type).
C7_OtherChartEmptyUserPrompt ==
  \A c \in Calls :
    (OtherChart(c) /\ cdp_tokenizer[c] = "object")
      => /\ messages[c] = FallbackMessages
         /\ system_prompt # <<>>
         /\ ret[c] # CaughtReturn(TokenizerNotLoaded)

\* C7 witness: create_d3_prompt returned for a "Line Chart" request with
\* non-empty CSV raw_data.
C7_Witness ==
  \E c \in Calls :
    /\ OtherChart(c) /\ cdp_tokenizer[c] = "object" /\ pc[c] = "generate"
    /\ request[c].chart_type = "Line Chart"
    /\ request[c].data_type = "CSV"
    /\ request[c].raw_data # <<>>

====
